---- MODULE Spec2Model ----
(***************************************************************************)
(* Verification model of the piece-download engine of the BitTorrent       *)
(* client: the dialer (connectPeersAsync), the coordinator                 *)
(* (startPiecesDownload and its drivers, attemptPieceDownload), the piece  *)
(* writer (writePiecesToFileAsync) and StartDownload.                      *)
(*                                                                         *)
(* Goroutines are interleaved one step at a time.  A step of a goroutine   *)
(* is a maximal run of statements that touch no shared object more than    *)
(* once (a channel operation, a context, an atomic counter).  A Go panic   *)
(* (send on a closed channel) ends the process: panicked names the channel *)
(* and no goroutine takes another step.  Once StartDownload has cancelled  *)
(* workCtx it returns nil and main returns: the process may end at any     *)
(* later moment, which is a behaviour that stutters from there on.         *)
(*                                                                         *)
(* Byte counts are the real ones.  A piece buffer is kept per block of     *)
(* blockSize bytes: "zero" (as allocated), "good" (the bytes of the file)  *)
(* or "bad" (anything else); sha1 is taken to be collision free, so        *)
(* ValidateHash succeeds exactly on an all-"good" buffer.                  *)
(***************************************************************************)
EXTENDS Integers, Sequences, FiniteSets, TLC

\* ---------------------------------------------------------------- bounds

\* Number of environment failures one run may contain (failed dial, failed
\* send, lost connection, corrupt block, choke, failed write).
MaxFaults == 2

\* ------------------------------------------------------------- constants

blockSize == 16 * 1024

MaxReqBacklog == 5

\* The torrent descriptors a run may start from: [PieceSize, FileSize].
\* Every descriptor is well formed: it has ceil(FileSize / PieceSize) hashes.
\*   - two pieces of 2 blocks and of 1 short block (3616 bytes)
\*   - two pieces of 10000 bytes: a piece size that is no multiple of blockSize
\*   - one piece of 6 blocks: more blocks than MaxReqBacklog
Torrents ==
    { [PieceSize |-> 2 * blockSize, FileSize |-> 2 * blockSize + 3616],
      [PieceSize |-> 10000,         FileSize |-> 20000],
      [PieceSize |-> 6 * blockSize, FileSize |-> 6 * blockSize] }

\* The peer list the tracker announced (one dial task each).
Peers == {1, 2}

\* totalPeers := len(peers)
totalPeers == Cardinality(Peers)

NoPiece == -1

NoBitfield == << -1 >>

\* no piece message read yet
NoBlock == [index |-> -1, begin |-> -1, length |-> -1]

Min(a, b) == IF a < b THEN a ELSE b

CeilDiv(a, b) == (a + b - 1) \div b

RECURSIVE Pow2(_)
Pow2(n) == IF n = 0 THEN 1 ELSE 2 * Pow2(n - 1)

VARIABLES
    torr,             \* the torrent descriptor [PieceSize, FileSize]
    fileCreated,      \* os.Create succeeded in writePiecesToFileAsync
    pieces,           \* PieceProgress per index: requested, downloaded, buf
    piecesChan,       \* the work queue (buffered channel of piece indices)
    piecesClosed,     \* close(piecesChan) was executed
    donePieces,       \* the done-pieces stream (buffered channel)
    doneClosed,       \* close(donePieces) was executed
    donePiecesTotal,  \* the atomic counter of verified pieces
    downloadCancelled,\* downloadCtxCancel() was called
    workCtxCause,     \* "none", or the cause workCtxCancel was called with
    cleanupPc,        \* the channel-cleanup goroutine of startPiecesDownload
    sess,             \* per peer: dial task, PeerConn and driver goroutine
    outstanding,      \* per peer: requests received and not yet answered
    peersChan,        \* the dialer's output stream
    peersChanClosed,  \* close(channel) was executed by the dialer's cleanup
    connsAttempts,    \* the dialer's atomic counter of finished dial tasks
    peersConnsCancelled, \* peersConnsWorkCtxCancel() was called
    writerPc,         \* the writer goroutine
    file,             \* the WriteAt calls that succeeded: [index, off, len]
    errchan,          \* the writer's error channel (capacity 1)
    mainPc,           \* StartDownload
    panicked,         \* "none", or the closed channel a goroutine sent on
    sentDone,         \* history: how often each index was sent on donePieces
    received,         \* history: the indices the writer took from donePieces
    faults,           \* environment failures so far
    codecPc,          \* a call of a codec function: "idle", "call", "wire", "ret"
    codecIn,          \* its arguments
    codecWire,        \* the bytes on the wire
    codecOut,         \* its result
    clientPeerID,     \* the package variable clientPeerID (<< >>: not yet set)
    idCall            \* per dial task: its call of getClientPeerID

vars == << torr, fileCreated, pieces, piecesChan, piecesClosed, donePieces,
           doneClosed, donePiecesTotal, downloadCancelled, workCtxCause,
           cleanupPc, sess, outstanding, peersChan, peersChanClosed,
           connsAttempts, peersConnsCancelled, writerPc, file, errchan,
           mainPc, panicked, sentDone, received, faults,
           codecPc, codecIn, codecWire, codecOut, clientPeerID, idCall >>

\* ------------------------------------------------------------ the torrent

\* Torrent.calculateBoundsForPiece
calculateBoundsForPiece(t, index) ==
    LET begin == index * t.PieceSize
    IN  << begin, Min(begin + t.PieceSize, t.FileSize) >>

\* Torrent.calculatePieceSize
calculatePieceSize(t, index) ==
    calculateBoundsForPiece(t, index)[2] - calculateBoundsForPiece(t, index)[1]

\* len(torr.PiecesHashes), torr.TotalPieces
TotalPieces(t) == CeilDiv(t.FileSize, t.PieceSize)

PieceIdx == 0 .. TotalPieces(torr) - 1

\* PieceProgress.size
size(p) == calculatePieceSize(torr, p)

\* number of blockSize blocks the buffer of a piece of n bytes is kept in
NumBlocks(n) == CeilDiv(n, blockSize)

\* newPieceProgress
newPieceProgress(t, index) ==
    [ requested  |-> 0,
      downloaded |-> 0,
      buf        |-> [b \in 0 .. NumBlocks(calculatePieceSize(t, index)) - 1 |-> "zero"] ]

\* calcNextBlockSize without its short last block
calcNextBlockSize_Full(p) == blockSize

\* PieceProgress.calcNextBlockSize
calcNextBlockSize(p) ==
    IF size(p) - pieces[p].requested < blockSize
    THEN size(p) - pieces[p].requested
    ELSE blockSize

\* ValidateHash that never reports a mismatch
ValidateHash_Always(p) == TRUE

\* PieceProgress.ValidateHash
ValidateHash(p) == \A b \in DOMAIN pieces[p].buf : pieces[p].buf[b] = "good"

\* PieceProgress.reset
reset(pp) == [pp EXCEPT !.downloaded = 0, !.requested = 0]

\* --------------------------------------------------------------- bitfield

\* Bitfield.HasPiece: bit (7 - index mod 8) of byte index / 8
HasPiece(b, index) ==
    LET byteIndex == index \div 8
        bitIndex == index - (8 * byteIndex)
    IN  (b[byteIndex + 1] \div Pow2(7 - bitIndex)) % 2 = 1

\* The bitfield payloads a peer of this model announces: one byte (every
\* torrent here has at most 8 pieces) with any subset of the torrent's
\* pieces set, or no bitfield at all (the peer unchoked first).
BitfieldChoices(t) ==
    { << 128 + 64 * b >> : b \in (IF TotalPieces(t) > 1 THEN {0, 1} ELSE {0}) }
    \cup { NoBitfield }

\* ------------------------------------------------------------- contexts

workCtxDone == workCtxCause # "none"

\* a downloadCtx derived from the dialer's context
downloadCtxDone_Peers == downloadCancelled \/ workCtxDone \/ peersConnsCancelled

\* downloadCtx is derived from workCtx
downloadCtxDone == downloadCancelled \/ workCtxDone

\* peersConnsWorkCtx is derived from workCtx
peersConnsCtxDone == peersConnsCancelled \/ workCtxDone

Running == panicked = "none"

\* ------------------------------------------------------------------ Init

\* genPiecesProgresses: every piece, in index order, in a channel of
\* capacity len(torr.PiecesHashes)
genPiecesProgresses(t) == [i \in 1 .. TotalPieces(t) |-> i - 1]

\* The history of a connection, kept when on: the request messages written
\* to it so far, each with the number of the call of attemptPieceDownload
\* that sent it, and the last piece message read from it.
NoLog == [on |-> FALSE, calls |-> 0, sent |-> << >>, block |-> NoBlock]

LogCall(l) == IF l.on THEN [l EXCEPT !.calls = @ + 1] ELSE l

LogSent(l, r) ==
    IF l.on
    THEN [l EXCEPT !.sent = Append(@, [index |-> r.index, begin |-> r.begin,
                                       length |-> r.length, call |-> l.calls])]
    ELSE l

LogBlock(l, m) == IF l.on THEN [l EXCEPT !.block = m] ELSE l

\* &PeerConn{...} of connectToPeer, before the dial task has run
newPeerConn ==
    [ pc         |-> "dial",
      piece      |-> NoPiece,
      connOpen   |-> FALSE,
      unchoked   |-> FALSE,
      bitfield   |-> NoBitfield,
      reqBacklog |-> 0,
      log        |-> NoLog ]

\* The state in which StartDownload blocks in its select: the dialer, the
\* coordinator and the writer have been started (os.Create has succeeded or
\* failed; on failure errchan already holds the error and no writer runs).
EngineInitWith(conn) ==
    /\ torr \in Torrents
    /\ fileCreated \in BOOLEAN
    /\ pieces = [i \in 0 .. TotalPieces(torr) - 1 |-> newPieceProgress(torr, i)]
    /\ piecesChan = genPiecesProgresses(torr)
    /\ piecesClosed = FALSE
    /\ donePieces = << >>
    /\ doneClosed = FALSE
    /\ donePiecesTotal = 0
    /\ downloadCancelled = FALSE
    /\ workCtxCause = "none"
    /\ cleanupPc = "wait"
    /\ sess = [d \in Peers |-> conn]
    /\ outstanding = [d \in Peers |-> {}]
    /\ peersChan = << >>
    /\ peersChanClosed = FALSE
    /\ connsAttempts = 0
    /\ peersConnsCancelled = FALSE
    /\ writerPc = IF fileCreated THEN "range" ELSE "done"
    /\ file = {}
    /\ errchan = IF fileCreated THEN << >> ELSE << "create" >>
    /\ mainPc = "select"
    /\ panicked = "none"
    /\ sentDone = [i \in 0 .. TotalPieces(torr) - 1 |-> 0]
    /\ received = {}
    /\ faults = 0
    /\ clientPeerID = << >>
    /\ idCall = [d \in Peers |-> [pc |-> "call", generated |-> 0, ret |-> << >>]]

EngineInit == EngineInitWith(newPeerConn)

\* the download engine calls no codec function on its own in this model:
\* the messages of a session are the steps of its driver
Init ==
    /\ EngineInit
    /\ codecPc = "idle"
    /\ codecIn = << >>
    /\ codecWire = << >>
    /\ codecOut = << >>

coordVars == << pieces, piecesChan, piecesClosed, donePieces, doneClosed,
                donePiecesTotal, downloadCancelled, cleanupPc, sentDone >>

dialVars == << peersChan, peersChanClosed, connsAttempts, peersConnsCancelled >>

writerVars == << writerPc, file, errchan, received >>

mainVars == << workCtxCause, mainPc >>

\* what no step of the download engine changes
constVars == << torr, fileCreated, codecPc, codecIn, codecWire, codecOut,
               clientPeerID, idCall >>

\* every variable of the download engine but the client's peer ID
engineVarsButId ==
    << torr, fileCreated, pieces, piecesChan, piecesClosed, donePieces,
       doneClosed, donePiecesTotal, downloadCancelled, workCtxCause,
       cleanupPc, sess, outstanding, peersChan, peersChanClosed,
       connsAttempts, peersConnsCancelled, writerPc, file, errchan, mainPc,
       panicked, sentDone, received, faults >>

\* ---------------------------------------------------------------- dialer

\* the deferred function of a dial task: connsAttempts.Add(1), and
\* peersConnsWorkCtxCancel() when the counter has reached totalPeers
DialReport ==
    /\ connsAttempts' = connsAttempts + 1
    /\ peersConnsCancelled' =
          (peersConnsCancelled \/ connsAttempts + 1 = totalPeers)

\* connectToPeer fails (dial, handshake, or a read error while waiting for
\* unchoke): the dial task logs and reports
DialFail(d) ==
    /\ Running
    /\ sess[d].pc = "dial"
    /\ faults < MaxFaults
    /\ faults' = faults + 1
    /\ sess' = [sess EXCEPT ![d].pc = "reported"]
    /\ DialReport
    /\ UNCHANGED << peersChan, peersChanClosed, coordVars, writerVars,
                    mainVars, constVars, outstanding, panicked >>

\* connectToPeer succeeds: it returns once the peer has unchoked; the
\* bitfield is whatever the peer sent before that (possibly nothing)
DialConnect(d) ==
    /\ Running
    /\ sess[d].pc = "dial"
    /\ \E b \in BitfieldChoices(torr) :
          sess' = [sess EXCEPT ![d].pc = "connected",
                               ![d].connOpen = TRUE,
                               ![d].unchoked = TRUE,
                               ![d].bitfield = b]
    /\ UNCHANGED << dialVars, coordVars, writerVars, mainVars, constVars,
                    outstanding, panicked, faults >>

\* the select of a dial task, case <-workCtx.Done(): return
DialDrop(d) ==
    /\ Running
    /\ sess[d].pc = "connected"
    /\ workCtxDone
    /\ sess' = [sess EXCEPT ![d].pc = "reported"]
    /\ DialReport
    /\ UNCHANGED << peersChan, peersChanClosed, coordVars, writerVars,
                    mainVars, constVars, outstanding, panicked, faults >>

\* the select of a dial task, case channel <- pConn: the channel has room
\* for every peer, so the case is always ready; on a closed channel it panics
DialDeliver(d) ==
    /\ Running
    /\ sess[d].pc = "connected"
    /\ IF peersChanClosed
       THEN /\ panicked' = "peersChan"
            /\ UNCHANGED << sess, dialVars >>
       ELSE /\ peersChan' = Append(peersChan, d)
            /\ sess' = [sess EXCEPT ![d].pc = "inchan"]
            /\ DialReport
            /\ UNCHANGED << peersChanClosed, panicked >>
    /\ UNCHANGED << coordVars, writerVars, mainVars, constVars, outstanding,
                    faults >>

\* the dialer's channel-cleanup goroutine: close(channel), once, when
\* workCtx or peersConnsWorkCtx is done
DialerCleanup ==
    /\ Running
    /\ ~peersChanClosed
    /\ peersConnsCtxDone
    /\ peersChanClosed' = TRUE
    /\ peersConnsCancelled' = TRUE
    /\ UNCHANGED << peersChan, connsAttempts, sess, coordVars, writerVars,
                    mainVars, constVars, outstanding, panicked, faults >>

\* ------------------------------------------------- coordinator: sessions

\* for p := range peersChan { go func() {...}() }
SpawnDriver ==
    /\ Running
    /\ peersChan # << >>
    /\ sess' = [sess EXCEPT ![Head(peersChan)].pc = "hello"]
    /\ peersChan' = Tail(peersChan)
    /\ UNCHANGED << peersChanClosed, connsAttempts, peersConnsCancelled,
                    coordVars, writerVars, mainVars, constVars, outstanding,
                    panicked, faults >>

\* SendUnchoke, SendInterestedMsg both succeed
DriverHello(d) ==
    /\ Running
    /\ sess[d].pc = "hello"
    /\ sess' = [sess EXCEPT ![d].pc = "select"]
    /\ UNCHANGED << dialVars, coordVars, writerVars, mainVars, constVars,
                    outstanding, panicked, faults >>

\* SendUnchoke or SendInterestedMsg fails: the driver returns
DriverHelloFail(d) ==
    /\ Running
    /\ sess[d].pc = "hello"
    /\ faults < MaxFaults
    /\ faults' = faults + 1
    /\ sess' = [sess EXCEPT ![d].pc = "done"]
    /\ UNCHANGED << dialVars, coordVars, writerVars, mainVars, constVars,
                    outstanding, panicked >>

\* ------------------------------------------------- coordinator: drivers

\* case pieceProgress := <-piecesChan, a piece is buffered (also when the
\* channel has been closed: a closed channel still yields what it holds)
DriverTake(d) ==
    /\ Running
    /\ sess[d].pc = "select"
    /\ piecesChan # << >>
    /\ sess' = [sess EXCEPT ![d].pc = "check", ![d].piece = Head(piecesChan)]
    /\ piecesChan' = Tail(piecesChan)
    /\ UNCHANGED << pieces, piecesClosed, donePieces, doneClosed,
                    donePiecesTotal, downloadCancelled, cleanupPc, sentDone,
                    dialVars, writerVars, mainVars, constVars, outstanding,
                    panicked, faults >>

\* case pieceProgress := <-piecesChan on the closed, empty channel:
\* pieceProgress == nil, return
DriverTakeNil(d) ==
    /\ Running
    /\ sess[d].pc = "select"
    /\ piecesChan = << >>
    /\ piecesClosed
    /\ sess' = [sess EXCEPT ![d].pc = "done"]
    /\ UNCHANGED << dialVars, coordVars, writerVars, mainVars, constVars,
                    outstanding, panicked, faults >>

\* case <-keepAliveTicker: SendKeepAlive succeeds
DriverKeepAlive(d) ==
    /\ Running
    /\ sess[d].pc = "select"
    /\ sess[d].connOpen
    /\ UNCHANGED vars

\* case <-keepAliveTicker: SendKeepAlive fails (always on a connection the
\* driver has closed itself): return
DriverKeepAliveFail(d) ==
    /\ Running
    /\ sess[d].pc = "select"
    /\ \/ ~sess[d].connOpen /\ faults' = faults
       \/ sess[d].connOpen /\ faults < MaxFaults /\ faults' = faults + 1
    /\ sess' = [sess EXCEPT ![d].pc = "done"]
    /\ UNCHANGED << dialVars, coordVars, writerVars, mainVars, constVars,
                    outstanding, panicked >>

\* case <-downloadCtx.Done(): peerConn.CloseConn(), and the loop goes on
DriverCtxDone(d) ==
    /\ Running
    /\ sess[d].pc = "select"
    /\ downloadCtxDone
    /\ sess' = [sess EXCEPT ![d].connOpen = FALSE]
    /\ UNCHANGED << dialVars, coordVars, writerVars, mainVars, constVars,
                    outstanding, panicked, faults >>

\* a put that enqueues the piece twice
Put_Twice(p) ==
    IF piecesClosed
    THEN panicked' = "piecesChan" /\ piecesChan' = piecesChan
    ELSE panicked' = panicked /\ piecesChan' = Append(Append(piecesChan, p), p)

\* a put that drops the piece
Put_Drop(p) ==
    IF piecesClosed
    THEN panicked' = "piecesChan" /\ piecesChan' = piecesChan
    ELSE panicked' = panicked /\ piecesChan' = piecesChan

\* piecesChan <- pieceProgress: the channel has room for every piece; a send
\* on the closed channel panics
Put(p) ==
    IF piecesClosed
    THEN panicked' = "piecesChan" /\ piecesChan' = piecesChan
    ELSE panicked' = panicked /\ piecesChan' = Append(piecesChan, p)

\* bitfield == nil || !bitfield.HasPiece(pieceProgress.index)
LacksPiece(d, p) ==
    sess[d].bitfield = NoBitfield \/ ~HasPiece(sess[d].bitfield, p)

\* the bitfield check: the piece goes back to the queue, or its download starts
DriverCheck(d) ==
    /\ Running
    /\ sess[d].pc = "check"
    /\ IF LacksPiece(d, sess[d].piece)
       THEN /\ Put(sess[d].piece)
            /\ sess' = IF piecesClosed THEN sess
                       ELSE [sess EXCEPT ![d].pc = "select", ![d].piece = NoPiece]
       ELSE /\ sess' = [sess EXCEPT ![d].pc = "download",
                                    ![d].log = LogCall(@)]
            /\ UNCHANGED << piecesChan, panicked >>
    /\ UNCHANGED << pieces, piecesClosed, donePieces, doneClosed,
                    donePiecesTotal, downloadCancelled, cleanupPc, sentDone,
                    dialVars, writerVars, mainVars, constVars, outstanding,
                    faults >>

\* for piece.downloaded < piece.size
Downloading(d) ==
    /\ sess[d].pc = "download"
    /\ pieces[sess[d].piece].downloaded < size(sess[d].piece)

\* the request loop with <= for <
CanRequest_Le(d) ==
    /\ sess[d].unchoked
    /\ sess[d].reqBacklog <= MaxReqBacklog
    /\ pieces[sess[d].piece].requested < size(sess[d].piece)

\* the request loop without the test of peer.IsUnchoked()
CanRequest_Choked(d) ==
    /\ sess[d].reqBacklog < MaxReqBacklog
    /\ pieces[sess[d].piece].requested < size(sess[d].piece)

\* peer.IsUnchoked() and the condition of the request loop
CanRequest(d) ==
    /\ sess[d].unchoked
    /\ sess[d].reqBacklog < MaxReqBacklog
    /\ pieces[sess[d].piece].requested < size(sess[d].piece)

\* a request loop that asks for the bytes after the last one received
NextBegin_Downloaded(p) == pieces[p].downloaded

\* uint32(piece.requested): the begin offset of the next request
NextBegin(p) == pieces[p].requested

\* one turn of the request loop: SendRequestMsg(index, requested, blockSize)
\* succeeds; peer.ReqBacklog++; piece.requested += blockSize
DriverRequest(d) ==
    /\ Running
    /\ Downloading(d)
    /\ CanRequest(d)
    /\ sess[d].connOpen
    /\ LET p == sess[d].piece
           n == calcNextBlockSize(p)
           r == [index |-> p, begin |-> NextBegin(p), length |-> n]
       IN  /\ outstanding' = [outstanding EXCEPT ![d] = @ \cup {r}]
           /\ sess' = [sess EXCEPT ![d].reqBacklog = @ + 1,
                                   ![d].log = LogSent(@, r)]
           /\ pieces' = [pieces EXCEPT ![p].requested = @ + n]
    /\ UNCHANGED << piecesChan, piecesClosed, donePieces, doneClosed,
                    donePiecesTotal, downloadCancelled, cleanupPc, sentDone,
                    dialVars, writerVars, mainVars, constVars, panicked,
                    faults >>

\* attemptPieceDownload returned an error: peerConn.CloseConn();
\* piecesChan <- pieceProgress; return
DownloadFailed(d) ==
    /\ Put(sess[d].piece)
    /\ sess' = IF piecesClosed
               THEN [sess EXCEPT ![d].connOpen = FALSE]
               ELSE [sess EXCEPT ![d].connOpen = FALSE, ![d].pc = "done",
                                 ![d].piece = NoPiece]

\* the same after the piece message m was read and refused
BlockRefused(d, m) ==
    /\ Put(sess[d].piece)
    /\ sess' = IF piecesClosed
               THEN [sess EXCEPT ![d].connOpen = FALSE,
                                 ![d].log = LogBlock(@, m)]
               ELSE [sess EXCEPT ![d].connOpen = FALSE, ![d].pc = "done",
                                 ![d].piece = NoPiece,
                                 ![d].log = LogBlock(@, m)]

\* SendRequestMsg or Read fails: always on a connection the driver has
\* closed itself, at any time when the peer or the network drops it
DriverLost(d) ==
    /\ Running
    /\ Downloading(d)
    /\ \/ ~sess[d].connOpen /\ faults' = faults
       \/ sess[d].connOpen /\ faults < MaxFaults /\ faults' = faults + 1
    /\ DownloadFailed(d)
    /\ UNCHANGED << pieces, piecesClosed, donePieces, doneClosed,
                    donePiecesTotal, downloadCancelled, cleanupPc, sentDone,
                    dialVars, writerVars, mainVars, constVars, outstanding >>

\* peer.Read() is reached: the request loop has nothing more to send
Reading(d) ==
    /\ Downloading(d)
    /\ ~CanRequest(d)
    /\ sess[d].connOpen

\* Read returns a keep-alive (nil) or a message that changes nothing
DriverReadOther(d) ==
    /\ Running
    /\ Reading(d)
    /\ UNCHANGED vars

\* Read returns choke: p.unchoked = false
DriverReadChoke(d) ==
    /\ Running
    /\ Reading(d)
    /\ sess[d].unchoked
    /\ faults < MaxFaults
    /\ faults' = faults + 1
    /\ sess' = [sess EXCEPT ![d].unchoked = FALSE]
    /\ UNCHANGED << dialVars, coordVars, writerVars, mainVars, constVars,
                    outstanding, panicked >>

\* Read returns unchoke: p.unchoked = true
DriverReadUnchoke(d) ==
    /\ Running
    /\ Reading(d)
    /\ ~sess[d].unchoked
    /\ sess' = [sess EXCEPT ![d].unchoked = TRUE]
    /\ UNCHANGED << dialVars, coordVars, writerVars, mainVars, constVars,
                    outstanding, panicked, faults >>

\* the checks without the one of the end of the block
BlockAccepted_NoEnd(p, index, begin, length) ==
    /\ index = p
    /\ begin < size(p)

\* the checks of a received block against the piece being downloaded
BlockAccepted(p, index, begin, length) ==
    /\ index = p
    /\ begin < size(p)
    /\ begin + length <= size(p)

\* copy(piece.buf[block.Begin:], block.Data), on the per-block buffer
CopyBlock(buf, begin, tag) == [buf EXCEPT ![begin \div blockSize] = tag]

\* the same copy for data that spans several blocks of the buffer
CopyData(buf, begin, length, tag) ==
    [b \in DOMAIN buf |->
        IF begin <= b * blockSize /\ b * blockSize < begin + length
        THEN tag ELSE buf[b]]

\* the request a peer answers next: it serves its requests in the order it
\* received them, which on one session is the order of their begin offsets
NextServed(d) ==
    CHOOSE r \in outstanding[d] : \A q \in outstanding[d] : r.begin <= q.begin

\* Read returns a piece message: the peer answers the oldest request it
\* holds, with the bytes of the file or (a fault) with others
DriverReadPiece(d) ==
    /\ Running
    /\ Reading(d)
    /\ outstanding[d] # {}
    /\ \E tag \in {"good", "bad"} :
          LET p == sess[d].piece
              r == NextServed(d)
          IN
          /\ \/ tag = "good" /\ faults' = faults
             \/ tag = "bad" /\ faults < MaxFaults /\ faults' = faults + 1
          /\ outstanding' = [outstanding EXCEPT ![d] = @ \ {r}]
          /\ IF BlockAccepted(p, r.index, r.begin, r.length)
             THEN /\ pieces' = [pieces EXCEPT
                        ![p].buf = CopyBlock(@, r.begin, tag),
                        ![p].downloaded = @ + r.length]
                  /\ sess' = [sess EXCEPT ![d].reqBacklog = @ - 1,
                                          ![d].log = LogBlock(@, r)]
                  /\ UNCHANGED << piecesChan, panicked >>
             ELSE /\ BlockRefused(d, r)
                  /\ UNCHANGED pieces
    /\ UNCHANGED << piecesClosed, donePieces, doneClosed, donePiecesTotal,
                    downloadCancelled, cleanupPc, sentDone, dialVars,
                    writerVars, mainVars, constVars >>

\* The piece messages a peer may send without having been asked, while the
\* driver downloads piece p: any block of p (again, or before it was
\* requested), the whole piece at once, a block of another piece, a block
\* that begins at the end of the piece, and one that is longer than the piece
StrayBlocks(p) ==
    { [index |-> p, begin |-> b * blockSize,
       length |-> Min(blockSize, size(p) - b * blockSize)] :
         b \in 0 .. NumBlocks(size(p)) - 1 }
    \cup { [index |-> p,     begin |-> 0,       length |-> size(p)],
           [index |-> p + 1, begin |-> 0,       length |-> 1],
           [index |-> p,     begin |-> size(p), length |-> 1],
           [index |-> p,     begin |-> 0,       length |-> size(p) + 1] }

\* Read returns a piece message that answers none of the peer's requests:
\* the code handles it like any other piece message
DriverReadStray(d) ==
    /\ Running
    /\ Reading(d)
    /\ faults < MaxFaults
    /\ faults' = faults + 1
    /\ \E m \in StrayBlocks(sess[d].piece), tag \in {"good", "bad"} :
          LET p == sess[d].piece
          IN  IF BlockAccepted(p, m.index, m.begin, m.length)
              THEN /\ pieces' = [pieces EXCEPT
                         ![p].buf = CopyData(@, m.begin, m.length, tag),
                         ![p].downloaded = @ + m.length]
                   /\ sess' = [sess EXCEPT ![d].reqBacklog = @ - 1,
                                           ![d].log = LogBlock(@, m)]
                   /\ UNCHANGED << piecesChan, panicked >>
              ELSE /\ BlockRefused(d, m)
                   /\ UNCHANGED pieces
    /\ UNCHANGED << piecesClosed, donePieces, doneClosed, donePiecesTotal,
                    downloadCancelled, cleanupPc, sentDone, dialVars,
                    writerVars, mainVars, constVars, outstanding >>

\* attemptPieceDownload returned nil and ValidateHash fails:
\* pieceProgress.reset(); piecesChan <- pieceProgress; continue
DriverInvalid(d) ==
    /\ Running
    /\ sess[d].pc = "download"
    /\ ~Downloading(d)
    /\ ~ValidateHash(sess[d].piece)
    /\ pieces' = [pieces EXCEPT ![sess[d].piece] = reset(@)]
    /\ Put(sess[d].piece)
    /\ sess' = IF piecesClosed THEN sess
               ELSE [sess EXCEPT ![d].pc = "select", ![d].piece = NoPiece]
    /\ UNCHANGED << piecesClosed, donePieces, doneClosed, donePiecesTotal,
                    downloadCancelled, cleanupPc, sentDone, dialVars,
                    writerVars, mainVars, constVars, outstanding, faults >>

\* attemptPieceDownload returned nil and ValidateHash succeeds:
\* donePieces <- pieceProgress (a send on the closed channel panics)
DriverDeliver(d) ==
    /\ Running
    /\ sess[d].pc = "download"
    /\ ~Downloading(d)
    /\ ValidateHash(sess[d].piece)
    /\ IF doneClosed
       THEN /\ panicked' = "donePieces"
            /\ UNCHANGED << sess, donePieces, sentDone >>
       ELSE /\ donePieces' = Append(donePieces, sess[d].piece)
            /\ sentDone' = [sentDone EXCEPT ![sess[d].piece] = @ + 1]
            /\ sess' = [sess EXCEPT ![d].pc = "count", ![d].piece = NoPiece]
            /\ UNCHANGED panicked
    /\ UNCHANGED << pieces, piecesChan, piecesClosed, doneClosed,
                    donePiecesTotal, downloadCancelled, cleanupPc, dialVars,
                    writerVars, mainVars, constVars, outstanding, faults >>

\* donePiecesTotal.Add(1)
DriverCount(d) ==
    /\ Running
    /\ sess[d].pc = "count"
    /\ donePiecesTotal' = donePiecesTotal + 1
    /\ sess' = [sess EXCEPT ![d].pc = "cmp"]
    /\ UNCHANGED << pieces, piecesChan, piecesClosed, donePieces, doneClosed,
                    downloadCancelled, cleanupPc, sentDone, dialVars,
                    writerVars, mainVars, constVars, outstanding, panicked,
                    faults >>

\* a comparison that is satisfied by the first verified piece
AllDone_Early == donePiecesTotal >= 1

\* donePiecesTotal.Load() == uint64(torr.TotalPieces)
AllDone == donePiecesTotal = TotalPieces(torr)

\* if donePiecesTotal.Load() == uint64(torr.TotalPieces)
\*    { downloadCtxCancel(); return }
DriverCmp(d) ==
    /\ Running
    /\ sess[d].pc = "cmp"
    /\ IF AllDone
       THEN /\ downloadCancelled' = TRUE
            /\ sess' = [sess EXCEPT ![d].pc = "done"]
       ELSE /\ sess' = [sess EXCEPT ![d].pc = "select"]
            /\ UNCHANGED downloadCancelled
    /\ UNCHANGED << pieces, piecesChan, piecesClosed, donePieces, doneClosed,
                    donePiecesTotal, cleanupPc, sentDone, dialVars,
                    writerVars, mainVars, constVars, outstanding, panicked,
                    faults >>

\* ------------------------------------------------- coordinator: cleanup

\* <-downloadCtx.Done(); close(piecesChan)
CleanupClosePieces ==
    /\ Running
    /\ cleanupPc = "wait"
    /\ downloadCtxDone
    /\ piecesClosed' = TRUE
    /\ cleanupPc' = "closeDone"
    /\ UNCHANGED << pieces, piecesChan, donePieces, doneClosed,
                    donePiecesTotal, downloadCancelled, sentDone, sess,
                    dialVars, writerVars, mainVars, constVars, outstanding,
                    panicked, faults >>

\* close(donePieces)
CleanupCloseDone ==
    /\ Running
    /\ cleanupPc = "closeDone"
    /\ doneClosed' = TRUE
    /\ cleanupPc' = "done"
    /\ UNCHANGED << pieces, piecesChan, piecesClosed, donePieces,
                    donePiecesTotal, downloadCancelled, sentDone, sess,
                    dialVars, writerVars, mainVars, constVars, outstanding,
                    panicked, faults >>

\* ---------------------------------------------------------------- writer

\* int64(p.index*int(p.size)): the offset handed to file.WriteAt
WriteOffset(p) == p * size(p)

\* for p := range pieces: a piece arrives and file.WriteAt succeeds
WriterWrite ==
    /\ Running
    /\ writerPc = "range"
    /\ donePieces # << >>
    /\ ~workCtxDone
    /\ LET p == Head(donePieces)
       IN  /\ file' = file \cup
                 {[index |-> p, off |-> WriteOffset(p), len |-> size(p)]}
           /\ received' = received \cup {p}
    /\ donePieces' = Tail(donePieces)
    /\ UNCHANGED << pieces, piecesChan, piecesClosed, doneClosed,
                    donePiecesTotal, downloadCancelled, cleanupPc, sentDone,
                    sess, dialVars, writerPc, errchan, mainVars, constVars,
                    outstanding, panicked, faults >>

\* for p := range pieces: a piece arrives and file.WriteAt fails:
\* errchan <- "failed to write to file"; return
WriterWriteFail ==
    /\ Running
    /\ writerPc = "range"
    /\ donePieces # << >>
    /\ ~workCtxDone
    /\ faults < MaxFaults
    /\ faults' = faults + 1
    /\ donePieces' = Tail(donePieces)
    /\ received' = received \cup {Head(donePieces)}
    /\ errchan' = Append(errchan, "write")
    /\ writerPc' = "done"
    /\ UNCHANGED << pieces, piecesChan, piecesClosed, doneClosed,
                    donePiecesTotal, downloadCancelled, cleanupPc, sentDone,
                    sess, dialVars, file, mainVars, constVars, outstanding,
                    panicked >>

\* the range loop ends (donePieces closed and drained):
\* errchan <- "download completed"; close(errchan)
WriterEnd ==
    /\ Running
    /\ writerPc = "range"
    /\ donePieces = << >>
    /\ doneClosed
    /\ errchan' = Append(errchan, "completed")
    /\ writerPc' = "done"
    /\ UNCHANGED << coordVars, sess, dialVars, file, received, mainVars,
                    constVars, outstanding, panicked, faults >>

\* --------------------------------------------------------- StartDownload

\* StartDownload that cancels without the cause: workCtxCancel(nil)
MainSelect_NoCause ==
    /\ Running
    /\ mainPc = "select"
    /\ errchan # << >>
    /\ workCtxCause' = "canceled"
    /\ errchan' = Tail(errchan)
    /\ mainPc' = "return"
    /\ UNCHANGED << coordVars, sess, dialVars, writerPc, file, received,
                    constVars, outstanding, panicked, faults >>

\* case writeErr := <-writeErrChan: workCtxCancel(writeErr)
MainSelect ==
    /\ Running
    /\ mainPc = "select"
    /\ errchan # << >>
    /\ workCtxCause' = Head(errchan)
    /\ errchan' = Tail(errchan)
    /\ mainPc' = "return"
    /\ UNCHANGED << coordVars, sess, dialVars, writerPc, file, received,
                    constVars, outstanding, panicked, faults >>

\* return nil: the only return of StartDownload after its select
StartDownloadResult == IF mainPc = "return" THEN "nil" ELSE "running"

\* main: os.Exit(1) when StartDownload returns an error, else it returns
ExitCode == IF StartDownloadResult = "nil" THEN 0 ELSE 1

\* ------------------------------------------------------------------ Next

Next ==
    \/ \E d \in Peers : DialFail(d)
    \/ \E d \in Peers : DialConnect(d)
    \/ \E d \in Peers : DialDrop(d)
    \/ \E d \in Peers : DialDeliver(d)
    \/ DialerCleanup
    \/ SpawnDriver
    \/ \E d \in Peers : DriverHello(d)
    \/ \E d \in Peers : DriverHelloFail(d)
    \/ \E d \in Peers : DriverTake(d)
    \/ \E d \in Peers : DriverTakeNil(d)
    \/ \E d \in Peers : DriverKeepAlive(d)
    \/ \E d \in Peers : DriverKeepAliveFail(d)
    \/ \E d \in Peers : DriverCtxDone(d)
    \/ \E d \in Peers : DriverCheck(d)
    \/ \E d \in Peers : DriverRequest(d)
    \/ \E d \in Peers : DriverLost(d)
    \/ \E d \in Peers : DriverReadOther(d)
    \/ \E d \in Peers : DriverReadChoke(d)
    \/ \E d \in Peers : DriverReadUnchoke(d)
    \/ \E d \in Peers : DriverReadPiece(d)
    \/ \E d \in Peers : DriverInvalid(d)
    \/ \E d \in Peers : DriverDeliver(d)
    \/ \E d \in Peers : DriverCount(d)
    \/ \E d \in Peers : DriverCmp(d)
    \/ CleanupClosePieces
    \/ CleanupCloseDone
    \/ WriterWrite
    \/ WriterWriteFail
    \/ WriterEnd
    \/ MainSelect

Spec == Init /\ [][Next]_vars

\* --------------------------------------------------------------- fairness

\* One torrent of two pieces (2 blocks, and 1 short block); the output file
\* has been created and the writer runs.
FairInit ==
    /\ Init
    /\ torr = [PieceSize |-> 2 * blockSize, FileSize |-> 2 * blockSize + 3616]
    /\ fileCreated

\* the steps of a dial task that need no failure: connectToPeer returns
\* within its 30 s deadline, the select takes a ready case
DialStep(d) == DialConnect(d) \/ DialDeliver(d) \/ DialDrop(d)

\* the steps of a driver that need no failure and no timer: a goroutine that
\* can run does run, a peer answers the requests it holds, and a select that
\* is ready again and again on piecesChan takes that case
DriverStep(d) ==
    \/ DriverHello(d)
    \/ DriverTake(d)
    \/ DriverTakeNil(d)
    \/ DriverCheck(d)
    \/ DriverRequest(d)
    \/ DriverReadPiece(d)
    \/ DriverInvalid(d)
    \/ DriverDeliver(d)
    \/ DriverCount(d)
    \/ DriverCmp(d)

\* The Go scheduler runs every goroutine that can run.  Nothing obliges the
\* environment: a failure, a choke, an unchoke, a keep-alive or a timer tick
\* may never come.
Fairness ==
    /\ \A d \in Peers : WF_vars(DialStep(d))
    /\ \A d \in Peers : SF_vars(DriverStep(d))
    /\ WF_vars(DialerCleanup)
    /\ WF_vars(SpawnDriver)
    /\ WF_vars(CleanupClosePieces \/ CleanupCloseDone)
    /\ WF_vars(WriterWrite \/ WriterEnd)
    /\ WF_vars(MainSelect)

FairSpec == FairInit /\ [][Next]_vars /\ Fairness

\* ------------------------------------------- peers that send what they like

\* The specification of the sessions' wire traffic: the torrent of FairInit,
\* the history of every connection kept, and peers that also send piece
\* messages nobody asked for.
WireInit ==
    /\ EngineInitWith([newPeerConn EXCEPT !.log.on = TRUE])
    /\ torr = [PieceSize |-> 2 * blockSize, FileSize |-> 2 * blockSize + 3616]
    /\ fileCreated
    /\ codecPc = "idle"
    /\ codecIn = << >>
    /\ codecWire = << >>
    /\ codecOut = << >>

WireNext ==
    \/ Next
    \/ \E d \in Peers : DriverReadStray(d)

WireSpec == WireInit /\ [][WireNext]_vars

\* ------------------------------------------------- the client's peer ID

\* []byte("-TM0001-")
PeerIDPrefix == << 45, 84, 77, 48, 48, 48, 49, 45 >>

\* what rand.Read may put into the 12 bytes of randSlice
RandSlices == { [i \in 1 .. 12 |-> x] : x \in {0, 7, 255} }

\* getClientPeerID, if len(clientPeerID) == 0: the dial task of peer d, which
\* builds its handshake (HandshakeFromTorrent), reads the package variable.
\* Nothing orders the reads and writes of the dial tasks: the variable is
\* read and written without lock, sync.Once or atomic.
IdTest(d) ==
    /\ idCall[d].pc = "call"
    /\ idCall' = [idCall EXCEPT
          ![d].pc = IF Len(clientPeerID) = 0 THEN "gen" ELSE "return"]
    /\ UNCHANGED << clientPeerID, engineVarsButId, codecPc, codecIn, codecWire,
                    codecOut >>

\* genClientPeerID: clientPeerID = string(append(prefix, randSlice...))
IdGen(d) ==
    /\ idCall[d].pc = "gen"
    /\ \E r \in RandSlices : clientPeerID' = PeerIDPrefix \o r
    /\ idCall' = [idCall EXCEPT ![d].pc = "return", ![d].generated = @ + 1]
    /\ UNCHANGED << engineVarsButId, codecPc, codecIn, codecWire, codecOut >>

\* return clientPeerID
IdReturn(d) ==
    /\ idCall[d].pc = "return"
    /\ idCall' = [idCall EXCEPT ![d].pc = "done", ![d].ret = clientPeerID]
    /\ UNCHANGED << clientPeerID, engineVarsButId, codecPc, codecIn, codecWire,
                    codecOut >>

\* the dial tasks, one per peer, each calling getClientPeerID once
PeerIDNext ==
    \/ \E d \in Peers : IdTest(d)
    \/ \E d \in Peers : IdGen(d)
    \/ \E d \in Peers : IdReturn(d)

PeerIDSpec == Init /\ [][PeerIDNext]_vars

\* =================================================================
\* The codecs: bitfield, handshake, message framing
\* =================================================================

\* A byte string is a sequence of numbers in 0 .. 255.

\* a & b on bytes
RECURSIVE And(_, _)
And(a, b) ==
    IF a = 0 \/ b = 0 THEN 0
    ELSE (a % 2) * (b % 2) + 2 * And(a \div 2, b \div 2)

\* a | b on bytes
RECURSIVE Or(_, _)
Or(a, b) ==
    IF a = 0 /\ b = 0 THEN 0
    ELSE (IF a % 2 = 1 \/ b % 2 = 1 THEN 1 ELSE 0) + 2 * Or(a \div 2, b \div 2)

\* the bytes of s from position n + 1 on
Drop(s, n) == SubSeq(s, n + 1, Len(s))

\* SetPiece that counts the bits of a byte from the right
SetPiece_Lsb(b, index) ==
    LET byteIndex == index \div 8
        bitIndex == index - (8 * byteIndex)
    IN  [b EXCEPT ![byteIndex + 1] = Or(@, Pow2(bitIndex))]

\* Bitfield.SetPiece (package p2p): b[byteIndex] |= (1 << (7 - bitIndex))
SetPiece(b, index) ==
    LET byteIndex == index \div 8
        bitIndex == index - (8 * byteIndex)
    IN  [b EXCEPT ![byteIndex + 1] = Or(@, Pow2(7 - bitIndex))]

\* Bitfield.HasPiece (package torrents):
\* b[byteIndex] & (1 << bitIndex) != 0
torrents_HasPiece(b, index) ==
    LET byteIndex == index \div 8
        bitIndex == index - (8 * byteIndex)
    IN  And(b[byteIndex + 1], Pow2(bitIndex)) # 0

\* []byte("BitTorrent protocol")
ProtocolBytes ==
    << 66, 105, 116, 84, 111, 114, 114, 101, 110, 116, 32,
       112, 114, 111, 116, 111, 99, 111, 108 >>

\* Handshake.Serialize: byte(len(h.Pstr)), the protocol string, 8 reserved
\* bytes, the info hash, the peer ID
Handshake_Serialize(h) ==
    << Len(h.Pstr) % 256 >> \o ProtocolBytes \o [i \in 1 .. 8 |-> 0]
        \o h.InfoHash \o h.PeerID

\* HandshakeFromStream.  io.ReadFull into a buffer of n bytes fails when
\* fewer than n bytes are left (never for n = 0); buf.Next(8) skips the
\* bytes that are there, at most 8.
HandshakeFromStream(r) ==
    IF Len(r) = 0 THEN [err |-> "empty handshake response"]
    ELSE
    LET pstrlen == r[1]
        b1 == Tail(r)
    IN  IF Len(b1) < pstrlen THEN [err |-> "failed to get protocol string"]
        ELSE
        LET pstrbuf == SubSeq(b1, 1, pstrlen)
            b2 == Drop(b1, pstrlen)
            b3 == Drop(b2, Min(8, Len(b2)))
        IN  IF Len(b3) < 20 THEN [err |-> "failed to get info hash"]
            ELSE
            LET infoHashBuf == SubSeq(b3, 1, 20)
                b4 == Drop(b3, 20)
            IN  IF Len(b4) < 20 THEN [err |-> "failed to get peer ID"]
                ELSE [ err      |-> "nil",
                       Pstr     |-> pstrbuf,
                       InfoHash |-> infoHashBuf,
                       PeerID   |-> SubSeq(b4, 1, 20) ]

\* binary.BigEndian.PutUint32 of uint32(v): the four low bytes of v
PutUint32(v) ==
    << (v \div 16777216) % 256, (v \div 65536) % 256, (v \div 256) % 256,
       v % 256 >>

\* binary.BigEndian.Uint32
Uint32(b) == b[1] * 16777216 + b[2] * 65536 + b[3] * 256 + b[4]

\* Serialize whose length prefix leaves out the ID byte
Serialize_NoID(m) ==
    PutUint32(Len(m.Payload)) \o << m.ID % 256 >> \o m.Payload

\* Message.Serialize (package p2p): msgLen := uint32(1 + len(m.Payload))
Serialize(m) ==
    PutUint32(1 + Len(m.Payload)) \o << m.ID % 256 >>
        \o m.Payload

\* MessageFromStream (package p2p) on the bytes d that the stream holds.
\* msg is << >> for a nil *Message, else << the message >>; rest is what the
\* stream holds afterwards (a failing io.ReadFull has consumed what was there).
MessageFromStream(d) ==
    IF Len(d) < 4
    THEN [msg |-> << >>, err |-> "failed to read message length", rest |-> << >>]
    ELSE
    LET msgLen == Uint32(SubSeq(d, 1, 4))
        d1 == Drop(d, 4)
    IN  IF msgLen = 0 THEN [msg |-> << >>, err |-> "nil", rest |-> d1]
        ELSE IF Len(d1) < msgLen
        THEN [msg |-> << >>, err |-> "failed to read message content",
              rest |-> << >>]
        ELSE [ msg  |-> << [ID |-> d1[1], Payload |-> SubSeq(d1, 2, msgLen)] >>,
               err  |-> "nil",
               rest |-> Drop(d1, msgLen) ]

\* a Go run-time panic (index or slice bounds out of range): the process dies
Panic(what) == [panic |-> what]

\* PeerConn.read after MessageFromStream has returned msg: what the message
\* does to the session c (its unchoked flag and its bitfield); read returns
\* no error of its own.  binary.BigEndian.Uint32 panics on fewer than 4
\* bytes, SetPiece on a byte index outside the bitfield.
read(c, msg) ==
    IF msg.ID = 0 THEN [c EXCEPT !.unchoked = FALSE]
    ELSE IF msg.ID = 1 THEN [c EXCEPT !.unchoked = TRUE]
    ELSE IF msg.ID = 5 THEN [c EXCEPT !.bitfield = msg.Payload]
    ELSE IF msg.ID = 4
         THEN IF c.bitfield # NoBitfield
              THEN IF Len(msg.Payload) < 4
                   THEN Panic("index out of range")
                   ELSE IF Uint32(msg.Payload) \div 8 >= Len(c.bitfield)
                   THEN Panic("index out of range")
                   ELSE [c EXCEPT !.bitfield = SetPiece(@, Uint32(msg.Payload))]
              ELSE c
    ELSE c

\* PieceBlockFromMessage: msg.Payload[0:4], msg.Payload[4:8] and
\* msg.Payload[8:] are taken without a look at len(msg.Payload)
PieceBlockFromMessage(msg) ==
    IF msg.ID # 7 THEN [err |-> "wrong message given"]
    ELSE IF Len(msg.Payload) < 8 THEN Panic("slice bounds out of range")
    ELSE [ err   |-> "nil",
           Index |-> Uint32(SubSeq(msg.Payload, 1, 4)),
           Begin |-> Uint32(SubSeq(msg.Payload, 5, 8)),
           Data  |-> Drop(msg.Payload, 8) ]

\* ------------------------------------------------------ the calls checked

\* the bytes bitfields are made of: 0x37 and 0x9C of the repository's tests,
\* no bit, every bit, the first bit, the last bit
ByteSamples == {0, 1, 55, 128, 156, 255}

\* two-byte bitfields (16 pieces) and every index in range
BitfieldCalls ==
    { [fn |-> f, b |-> << x, y >>, index |-> i] :
        f \in {"HasPiece", "SetPiece", "torrents.HasPiece"},
        x \in ByteSamples, y \in ByteSamples, i \in 0 .. 15 }

\* a well-formed handshake: the bytes of the hashes tell their positions
SampleHandshake ==
    [ Pstr     |-> ProtocolBytes,
      InfoHash |-> [i \in 1 .. 20 |-> 100 + i],
      PeerID   |-> [i \in 1 .. 20 |-> 200 + i] ]

\* a handshake response of n bytes whose first byte is pstrlen: the
\* serialized SampleHandshake with its first byte replaced, cut or padded
\* with zeros to n bytes (connectToPeer always hands over 68 bytes)
Response(pstrlen, n) ==
    [i \in 1 .. n |->
        IF i = 1 THEN pstrlen
        ELSE IF i <= Len(Handshake_Serialize(SampleHandshake))
             THEN Handshake_Serialize(SampleHandshake)[i]
             ELSE 0]

HandshakeCalls ==
    { [fn |-> "HandshakeFromStream", r |-> Response(l, n)] :
        l \in {0, 1, 18, 19, 20, 255}, n \in {0, 1, 48, 49, 67, 68} }

\* payloads of 0, 1, 2, 255 and 256 bytes
Payloads == { [i \in 1 .. n |-> (7 * i) % 256] : n \in {0, 1, 2, 255, 256} }

\* what follows a frame in the stream
Tails == { << >>, << 0, 0, 0, 0 >>, << 0, 0, 0, 5, 4 >> }

SerializeCalls ==
    { [fn |-> "Serialize", m |-> [ID |-> id, Payload |-> p], tail |-> t] :
        id \in {0, 4, 5, 6, 7, 9, 255}, p \in Payloads, t \in Tails }

\* raw streams: keep-alive frames, truncated frames, a frame with no payload
StreamCalls ==
    { [fn |-> "MessageFromStream", d |-> d] :
        d \in { << 0, 0, 0, 0 >> \o t : t \in Tails }
              \cup { << >>, << 0, 0, 0 >>, << 0, 0, 0, 1 >>, << 0, 0, 0, 1, 2 >>,
                     << 0, 0, 0, 3, 7, 1 >>, << 0, 0, 1, 0, 7 >> } }

\* a bitfield of n pieces with no bit set
ZeroBitfield(n) == [i \in 1 .. CeilDiv(n, 8) |-> 0]

\* sessions of torrents with 2, 9 and 16 pieces, with no bitfield yet, with an
\* empty one or with one that shows piece 0, reading choke, unchoke, a
\* bitfield, have(i) for the first, second and last piece, or not interested
ReadCalls ==
    { [fn |-> "read", total |-> n,
       c |-> [unchoked |-> u, bitfield |-> b], msg |-> m] :
        n \in {2, 9, 16}, u \in BOOLEAN,
        b \in {NoBitfield} \cup { [ZeroBitfield(k) EXCEPT ![1] = x] :
                                     k \in {2, 9, 16}, x \in {0, 128} },
        m \in { [ID |-> id, Payload |-> << >>] : id \in {0, 1, 3} }
              \cup { [ID |-> 5, Payload |-> x] : x \in {<< >>, << 192 >>, << 192, 0 >>} }
              \cup { [ID |-> 4, Payload |-> PutUint32(i)] : i \in {0, 1, 8, 15} }
              \cup { [ID |-> 4, Payload |-> x] : x \in {<< >>, << 0, 0, 0 >>} } }

\* piece messages with a payload of 0, 3, 4, 7, 8 and 10 bytes (index 1,
\* begin 16384, two bytes of data when they are there), and a have message
PieceCalls ==
    { [fn |-> "PieceBlockFromMessage",
       msg |-> [ID |-> 7,
                Payload |-> SubSeq(PutUint32(1) \o PutUint32(16384) \o << 9, 8 >>,
                                   1, n)]] : n \in {0, 3, 4, 7, 8, 10} }
    \cup { [fn |-> "PieceBlockFromMessage",
            msg |-> [ID |-> 4, Payload |-> PutUint32(1)]] }

CodecCalls ==
    BitfieldCalls \cup HandshakeCalls \cup SerializeCalls \cup StreamCalls
    \cup PieceCalls
    \cup { x \in ReadCalls :
              /\ x.c.bitfield # NoBitfield => Len(x.c.bitfield) = CeilDiv(x.total, 8)
              /\ (x.msg.ID = 4 /\ Len(x.msg.Payload) >= 4)
                    => Uint32(x.msg.Payload) < x.total }

\* every variable of the download engine
engineVars == << torr, fileCreated, pieces, piecesChan, piecesClosed,
                 donePieces, doneClosed, donePiecesTotal, downloadCancelled,
                 workCtxCause, cleanupPc, sess, outstanding, peersChan,
                 peersChanClosed, connsAttempts, peersConnsCancelled, writerPc,
                 file, errchan, mainPc, panicked, sentDone, received, faults,
                 clientPeerID, idCall >>

\* one call of a codec function, on any of the arguments above; the download
\* engine stands still
CodecInit ==
    /\ EngineInit
    /\ torr = [PieceSize |-> 2 * blockSize, FileSize |-> 2 * blockSize + 3616]
    /\ fileCreated
    /\ codecPc = "call"
    /\ codecIn \in CodecCalls
    /\ codecWire = (IF codecIn.fn = "MessageFromStream" THEN codecIn.d ELSE << >>)
    /\ codecOut = << >>

CallHasPiece ==
    /\ codecPc = "call"
    /\ codecIn.fn = "HasPiece"
    /\ codecOut' = HasPiece(codecIn.b, codecIn.index)
    /\ codecPc' = "ret"
    /\ UNCHANGED << codecIn, codecWire, engineVars >>

CallSetPiece ==
    /\ codecPc = "call"
    /\ codecIn.fn = "SetPiece"
    /\ codecOut' = SetPiece(codecIn.b, codecIn.index)
    /\ codecPc' = "ret"
    /\ UNCHANGED << codecIn, codecWire, engineVars >>

CallTorrentsHasPiece ==
    /\ codecPc = "call"
    /\ codecIn.fn = "torrents.HasPiece"
    /\ codecOut' = torrents_HasPiece(codecIn.b, codecIn.index)
    /\ codecPc' = "ret"
    /\ UNCHANGED << codecIn, codecWire, engineVars >>

CallHandshakeFromStream ==
    /\ codecPc = "call"
    /\ codecIn.fn = "HandshakeFromStream"
    /\ codecOut' = HandshakeFromStream(codecIn.r)
    /\ codecPc' = "ret"
    /\ UNCHANGED << codecIn, codecWire, engineVars >>

\* the sender: conn.Write(msg.Serialize()), and what it sends next
CallSerialize ==
    /\ codecPc = "call"
    /\ codecIn.fn = "Serialize"
    /\ codecWire' = Serialize(codecIn.m) \o codecIn.tail
    /\ codecPc' = "wire"
    /\ UNCHANGED << codecIn, codecOut, engineVars >>

\* the receiver: MessageFromStream(p.conn)
CallMessageFromStream ==
    /\ \/ codecPc = "wire"
       \/ codecPc = "call" /\ codecIn.fn = "MessageFromStream"
    /\ codecOut' = MessageFromStream(codecWire)
    /\ codecPc' = "ret"
    /\ UNCHANGED << codecIn, codecWire, engineVars >>

\* the receiver's session: PeerConn.read
CallRead ==
    /\ codecPc = "call"
    /\ codecIn.fn = "read"
    /\ codecOut' = read(codecIn.c, codecIn.msg)
    /\ codecPc' = "ret"
    /\ UNCHANGED << codecIn, codecWire, engineVars >>

\* attemptPieceDownload: block, err := PieceBlockFromMessage(msg)
CallPieceBlockFromMessage ==
    /\ codecPc = "call"
    /\ codecIn.fn = "PieceBlockFromMessage"
    /\ codecOut' = PieceBlockFromMessage(codecIn.msg)
    /\ codecPc' = "ret"
    /\ UNCHANGED << codecIn, codecWire, engineVars >>

CodecNext ==
    \/ CallRead
    \/ CallPieceBlockFromMessage
    \/ CallHasPiece
    \/ CallSetPiece
    \/ CallTorrentsHasPiece
    \/ CallHandshakeFromStream
    \/ CallSerialize
    \/ CallMessageFromStream

CodecSpec == CodecInit /\ [][CodecNext]_vars

\* =================================================================
\* Properties
\* =================================================================

Range(q) == {q[i] : i \in DOMAIN q}

\* the buffer of piece p holds the bytes of the file: its digest is the
\* expected one
BufferIsFile(p) == \A b \in DOMAIN pieces[p].buf : pieces[p].buf[b] = "good"

\* how often piece p is in the work queue
InQueue(p) == Cardinality({i \in DOMAIN piecesChan : piecesChan[i] = p})

\* the drivers that hold piece p
Holders(p) == {d \in Peers : sess[d].piece = p}

\* a WriteAt has failed (the writer has reported it and stopped)
WriteFailed == "write" \in Range(errchan) \/ workCtxCause = "write"

\* the safety part of P1: a piece is sent on donePieces only with a buffer
\* that passes the digest check, no index is sent twice, and when a driver
\* has signalled completion every index has been sent
P1Sends ==
    /\ \A p \in PieceIdx : sentDone[p] <= 1
    /\ \A p \in PieceIdx : sentDone[p] = 1 => BufferIsFile(p)
    /\ downloadCancelled => \A p \in PieceIdx : sentDone[p] = 1

\* C1 as stated: P1Sends, and once completion has been signalled every piece
\* sent is later received by the writer; so a writer that has terminated
\* after completion was signalled has received all N pieces (the output file
\* was created, the writer was started).
C1_Orig ==
    /\ P1Sends
    /\ (fileCreated /\ downloadCancelled /\ writerPc = "done")
          => received = PieceIdx

\* C1 as amended: P1Sends, and once completion has been signalled every
\* piece sent has been received by the writer or is still buffered in
\* donePieces for it, and a writer that has terminated has received all N
\* pieces, unless a write has failed (the writer stops at its first failed
\* write) or the output file could not be created (no writer was started).
C1_Completeness ==
    /\ P1Sends
    /\ (fileCreated /\ downloadCancelled /\ ~WriteFailed)
          => /\ \A p \in PieceIdx : p \in received \/ p \in Range(donePieces)
             /\ writerPc = "done" => received = PieceIdx

\* a two-piece download has completed and the writer has ended its loop
\* having received both pieces
C1_Witness ==
    /\ workCtxCause = "completed"
    /\ TotalPieces(torr) = 2
    /\ received = {0, 1}
    /\ downloadCancelled

\* C2 (P2 file layout): every piece i is written at offset i * piece_size,
\* also a shorter last piece; once all N pieces are written the written
\* ranges do not overlap and the file ends at total_size.
C2_Orig ==
    /\ \A w \in file : w.off = w.index * torr.PieceSize
    /\ {w.index : w \in file} = PieceIdx
          => /\ \A v, w \in file :
                   v # w => (v.off + v.len <= w.off \/ w.off + w.len <= v.off)
             /\ \E w \in file : w.off + w.len = torr.FileSize
             /\ \A w \in file : w.off + w.len <= torr.FileSize

\* C3 (P3 exclusive ownership): a piece that has not been sent on donePieces
\* is exactly once in the work queue or held by exactly one driver, never
\* both, never twice, never nowhere; a piece that has been sent is in neither.
C3_Ownership ==
    \A p \in PieceIdx :
        InQueue(p) + Cardinality(Holders(p)) = IF sentDone[p] = 0 THEN 1 ELSE 0

\* two drivers hold the two pieces of a torrent, both inside
\* attemptPieceDownload
C3_Witness ==
    /\ sess[1].pc = "download" /\ sess[2].pc = "download"
    /\ sess[1].piece # sess[2].piece
    /\ piecesChan = << >>

\* C4 (P4 backlog bound): ReqBacklog of every session is at most 5.
C4_BacklogBound == \A d \in Peers : sess[d].reqBacklog <= 5

\* a session has 5 requests in flight and more of the piece to request, in
\* an attempt that follows a digest mismatch (the buffer still holds the
\* corrupt block of the earlier attempt)
C4_Witness ==
    \E d \in Peers :
        /\ sess[d].pc = "download"
        /\ sess[d].reqBacklog = 5
        /\ pieces[sess[d].piece].requested < size(sess[d].piece)
        /\ \E b \in DOMAIN pieces[sess[d].piece].buf :
              pieces[sess[d].piece].buf[b] = "bad"

\* every request sent is in outstanding from the step that sends it
Requests == UNION {outstanding[d] : d \in Peers}

\* a request that reaches the end of its piece: the last one of the piece
LastOfPiece(r) == r.begin + r.length >= size(r.index)

\* the last request of the last piece of the torrent
LastOfLast(r) == r.index = TotalPieces(torr) - 1 /\ LastOfPiece(r)

\* C5 as stated (P5 block size law): every request has length 16 * 1024,
\* except the last request of the last piece, of length
\* total_size mod 16 * 1024 when that is not 0; for every piece_size.
C5_Orig ==
    \A r \in Requests :
        r.length = IF LastOfLast(r) /\ torr.FileSize % (16 * 1024) # 0
                   THEN torr.FileSize % (16 * 1024)
                   ELSE 16 * 1024

\* C5 as amended: every request has length 16 * 1024, except the last
\* request of a piece whose size is no multiple of 16 * 1024, of length
\* size mod 16 * 1024; when piece_size is a multiple of 16 * 1024 that is
\* only the last request of the last piece and its length is
\* total_size mod 16 * 1024.
C5_BlockSizeLaw ==
    /\ \A r \in Requests :
          r.length = IF LastOfPiece(r) /\ size(r.index) % (16 * 1024) # 0
                     THEN size(r.index) % (16 * 1024)
                     ELSE 16 * 1024
    /\ torr.PieceSize % (16 * 1024) = 0 => C5_Orig

\* the short last request (3616 bytes) of the last piece of a torrent whose
\* piece size is a multiple of the block size has been sent
C5_Witness ==
    /\ torr.PieceSize % (16 * 1024) = 0
    /\ \E r \in Requests : LastOfLast(r) /\ r.length = 3616

\* C8 (reset on re-enqueue): every piece in the work queue has
\* requested = 0 and downloaded = 0.
C8_Orig ==
    \A p \in Range(piecesChan) :
        pieces[p].requested = 0 /\ pieces[p].downloaded = 0

\* C10 (work queue lifetime), its consequence: no driver sends on the closed
\* work queue and none on the closed done-pieces stream, also not after a
\* cancellation by a writer error (the output file was created).
C10_Orig ==
    fileCreated => panicked \notin {"piecesChan", "donePieces"}

\* the session of peer d is driven by a live driver goroutine
DriverAlive(d) ==
    sess[d].pc \in {"hello", "select", "check", "download", "count", "cmp"}

\* C6 (P6 digest failure recovery), its first part: the step of a driver
\* that holds a fully downloaded piece whose digest does not match sets
\* requested = downloaded = 0, puts the piece back on the work queue, keeps
\* the session open and goes back to its select.
C6_Orig ==
    [][\A d \in Peers :
          ( /\ sess[d].pc = "download"
            /\ ~Downloading(d)
            /\ ~BufferIsFile(sess[d].piece)
            /\ pieces'[sess[d].piece] # pieces[sess[d].piece] )
          => /\ pieces'[sess[d].piece].requested = 0
             /\ pieces'[sess[d].piece].downloaded = 0
             /\ piecesChan' = Append(piecesChan, sess[d].piece)
             /\ sess'[d].connOpen
             /\ sess'[d].pc = "select"]_vars

\* piece p is back in the work queue after a failed transfer in which at
\* least one block of it had been received
Requeued(p) ==
    /\ p \in PieceIdx
    /\ p \in Range(piecesChan)
    /\ pieces[p].downloaded > 0

\* peer d is connected, has announced piece p, has unchoked, and its driver
\* runs (it answers every request it receives: Fairness)
Serving(d, p) ==
    /\ DriverAlive(d)
    /\ sess[d].connOpen
    /\ sess[d].unchoked
    /\ ~LacksPiece(d, p)

\* C7 (P7 peer loss recovery): a piece put back on the work queue after a
\* peer failed in the middle of it is eventually delivered to the done
\* stream, as long as there is a connected peer that has the piece and serves
\* (the download has not been cancelled and the process has not died).
C7_Orig ==
    \A p \in {0, 1} :
        [](Requeued(p) =>
              <>( \/ sentDone[p] = 1
                  \/ ~(\E d \in Peers : Serving(d, p))
                  \/ workCtxDone
                  \/ panicked # "none" ))

\* C9 (P8 cancellation): after workCtx has been cancelled every driver
\* eventually terminates, the dialer has closed its output stream and the
\* done-pieces stream is closed (unless the process dies first).
C9_Orig ==
    [](workCtxDone =>
          <>( \/ panicked # "none"
              \/ /\ \A d \in Peers : ~DriverAlive(d)
                 /\ peersChanClosed
                 /\ doneClosed ))

\* C11 (writer fatal error): once a WriteAt has failed the writer has
\* terminated, only the write error is or was in the error channel, the
\* work context is cancelled with no other cause than that error, and
\* StartDownload has returned only after cancelling with it; from then on
\* nothing more is taken from donePieces and nothing more is written; and
\* the work context is eventually cancelled with the write error as cause.
C11_WriterFatal ==
    /\ [](WriteFailed =>
             /\ writerPc = "done"
             /\ \A i \in DOMAIN errchan : errchan[i] = "write"
             /\ workCtxCause \in {"none", "write"}
             /\ (mainPc = "return") = (workCtxCause = "write"))
    /\ [][WriteFailed => (file' = file /\ received' = received)]_vars
    /\ (WriteFailed ~> (workCtxCause = "write"))

\* a write has failed, the work context is cancelled with the write error,
\* and a verified piece is left in donePieces that the writer never takes
C11_Witness ==
    /\ workCtxCause = "write"
    /\ donePieces # << >>
    /\ writerPc = "done"

\* C12 (exit status): when StartDownload has returned nil (exit code 0)
\* every piece has been written, and when the output file could not be
\* created or a write failed it returns an error (exit code not 0).
C12_Orig ==
    mainPc = "return" =>
        /\ ExitCode = 0 => {w.index : w \in file} = PieceIdx
        /\ workCtxCause \in {"create", "write"} => ExitCode # 0

\* C13 (setup errors precede peer I/O): in a run in which the output file
\* could not be created no dial task has dialed a peer: every one is still
\* before its connectToPeer.
C13_Orig == ~fileCreated => \A d \in Peers : sess[d].pc = "dial"

\* the dialer has delivered no session and every dial task has reported
ZeroSessions == \A d \in Peers : sess[d].pc = "reported"

\* the coordinator has done nothing: completion is not signalled, the work
\* queue and the done stream are open and the queue holds every piece
CoordinatorIdle ==
    /\ ~downloadCancelled
    /\ donePiecesTotal = 0
    /\ ~piecesClosed
    /\ ~doneClosed
    /\ piecesChan = genPiecesProgresses(torr)
    /\ panicked = "none"

CompletionSignal ==
    /\ downloadCancelled => donePiecesTotal = TotalPieces(torr)
    /\ (donePiecesTotal = TotalPieces(torr) /\ ~downloadCancelled)
          => \E d \in Peers : sess[d].pc = "cmp"

\* C15 as stated (completion signal): CompletionSignal, and the signal
\* cancels the context that the drivers, the dialer and the writer observe.
C15_Orig ==
    /\ CompletionSignal
    /\ downloadCancelled => (downloadCtxDone /\ workCtxDone)

\* C15 as amended: CompletionSignal; the signal cancels downloadCtx, which
\* the drivers and the channel cleanup observe; the context of the dialer
\* and of the writer (workCtx) is cancelled by StartDownload alone, when it
\* has taken the writer's report.
C15_CompletionSignal ==
    /\ CompletionSignal
    /\ downloadCancelled => downloadCtxDone
    /\ workCtxDone => mainPc = "return"
    /\ (downloadCancelled /\ mainPc = "select") => ~workCtxDone

\* two drivers have finished the last two pieces concurrently: one has
\* signalled completion, the other stands before signalling it again
C15_Witness ==
    /\ downloadCancelled
    /\ TotalPieces(torr) = 2
    /\ \E d \in Peers : sess[d].pc = "cmp"
    /\ \E d \in Peers : sess[d].pc = "done"

\* the session of peer d has every piece's bit set, is open and unchoked,
\* and its driver runs
Seeder(d) ==
    /\ DriverAlive(d)
    /\ sess[d].connOpen
    /\ sess[d].unchoked
    /\ \A p \in PieceIdx : ~LacksPiece(d, p)

\* C16 (progress with a seeding peer): while a seeder session is there,
\* every piece is eventually verified and completion is signalled (unless
\* the download is cancelled or the process dies).
C16_Orig ==
    \A d \in Peers :
        [](Seeder(d) =>
              <>( \/ downloadCancelled
                  \/ ~Seeder(d)
                  \/ workCtxDone
                  \/ panicked # "none" ))

\* a codec function has returned from a call of fn
Returned(fn) == codecPc = "ret" /\ codecIn.fn = fn

\* bit k of byte x, counted from the most significant bit (k = 0) on
MsbBit(x, k) == (x \div Pow2(7 - k)) % 2

\* bit k of byte x, counted from the least significant bit (k = 0) on
LsbBit(x, k) == (x \div Pow2(k)) % 2

C18_Orig ==
    /\ (Returned("HasPiece") \/ Returned("torrents.HasPiece")) =>
          /\ codecOut = (LsbBit(codecIn.b[codecIn.index \div 8 + 1],
                                codecIn.index % 8) = 1)
          /\ codecIn.b = << 55, 156 >> =>
                /\ codecIn.index \in {2, 11} => codecOut
                /\ codecIn.index \in {7, 14} => ~codecOut
    /\ Returned("SetPiece") =>
          /\ \A j \in 0 .. 15 :
                LsbBit(codecOut[j \div 8 + 1], j % 8) =
                    IF j = codecIn.index THEN 1
                    ELSE LsbBit(codecIn.b[j \div 8 + 1], j % 8)
          /\ (codecIn.b = << 55, 156 >> /\ codecIn.index = 7)
                => codecOut[1] = 183
          /\ (codecIn.b = << 55, 156 >> /\ codecIn.index = 14)
                => codecOut[2] = 220

\* C19 (P10 handshake parsing rejects bad framing): HandshakeFromStream
\* returns a handshake only for an input whose first byte is 19; for every
\* other input, one whose first byte is 0 among them, it returns an error.
C19_Orig ==
    Returned("HandshakeFromStream") =>
        /\ (Len(codecIn.r) > 0 /\ codecIn.r[1] = 0) => codecOut.err # "nil"
        /\ codecOut.err = "nil" => codecIn.r[1] = 19

\* C20 (message framing round trip): the serialized form of m is a 4-byte
\* big-endian L = 1 + len(payload) followed by L bytes; MessageFromStream
\* on it returns the ID and the payload of m and leaves what follows the
\* frame in the stream; a frame with L = 0 is returned as a keep-alive
\* (nil message, nil error) and takes exactly 4 bytes from the stream.
C20_FramingRoundTrip ==
    /\ (codecPc \in {"wire", "ret"} /\ codecIn.fn = "Serialize") =>
          LET L == 1 + Len(codecIn.m.Payload)
          IN  /\ Len(codecWire) = 4 + L + Len(codecIn.tail)
              /\ codecWire[1] * 16777216 + codecWire[2] * 65536
                    + codecWire[3] * 256 + codecWire[4] = L
              /\ \A k \in 1 .. 4 : codecWire[k] \in 0 .. 255
    /\ Returned("Serialize") =>
          /\ codecOut.err = "nil"
          /\ codecOut.msg = << [ID |-> codecIn.m.ID, Payload |-> codecIn.m.Payload] >>
          /\ codecOut.rest = codecIn.tail
    /\ (Returned("MessageFromStream") /\ Len(codecWire) >= 4
          /\ \A k \in 1 .. 4 : codecWire[k] = 0) =>
          /\ codecOut.err = "nil"
          /\ codecOut.msg = << >>
          /\ codecOut.rest = SubSeq(codecWire, 5, Len(codecWire))

\* a piece message (ID 7) with a payload of 256 bytes, followed in the stream
\* by a keep-alive, has made the round trip
C20_Witness ==
    /\ Returned("Serialize")
    /\ codecIn.m.ID = 7
    /\ Len(codecIn.m.Payload) = 256
    /\ codecIn.tail = << 0, 0, 0, 0 >>
    /\ codecOut.msg # << >>

\* ------------------------------------------------------ claims C21 .. C30

\* C21 (peer lacks the piece): the step of a driver that has taken a piece
\* its session's bitfield does not show (or that has no bitfield) sends no
\* request, puts the piece back on the work queue with its buffer and
\* counters unchanged, leaves the session open and goes back to its select;
\* and no request is sent for a piece the session's bitfield does not show.
C21_Orig ==
    [][\A d \in Peers :
          /\ (DriverCheck(d) /\ LacksPiece(d, sess[d].piece))
                => /\ outstanding' = outstanding
                   /\ piecesChan' = Append(piecesChan, sess[d].piece)
                   /\ pieces' = pieces
                   /\ sess'[d].connOpen = sess[d].connOpen
                   /\ sess'[d].pc = "select"
          /\ DriverRequest(d) => ~LacksPiece(d, sess[d].piece)]_vars

\* the request message session d sends in this step, if it sends one
SentNow(d) == outstanding'[d] \ outstanding[d]

\* C22 (pipelining guard): a request is sent only by a session that is not
\* choked, has fewer than 5 requests in flight and whose piece has bytes left
\* to request (so none between a choke and the next unchoke); the request
\* asks for the piece at offset requested, adds one to the requests in
\* flight and its length to requested.
C22_PipeliningGuard ==
    [][\A d \in Peers : \A r \in SentNow(d) :
          /\ sess[d].unchoked
          /\ sess[d].reqBacklog < 5
          /\ pieces[r.index].requested < size(r.index)
          /\ r.index = sess[d].piece
          /\ r.begin = pieces[r.index].requested
          /\ sess'[d].reqBacklog = sess[d].reqBacklog + 1
          /\ pieces'[r.index].requested = pieces[r.index].requested + r.length]_vars

\* a choked session in the middle of a piece, with room in its backlog and
\* bytes left to request, and requests of it still unanswered
C22_Witness ==
    \E d \in Peers :
        /\ sess[d].pc = "download"
        /\ ~sess[d].unchoked
        /\ sess[d].reqBacklog < 5
        /\ pieces[sess[d].piece].requested < size(sess[d].piece)
        /\ pieces[sess[d].piece].requested > 0
        /\ outstanding[d] # {}

\* the requests session d has sent so far, in order
Sent(d) == sess[d].log.sent

\* C23 (request ordering) as stated: over the whole life of a session, each
\* request for a piece has a greater begin offset than every request the
\* session sent for that piece before, also when the session downloads the
\* piece again after a digest mismatch.
C23_Orig ==
    \A d \in Peers : \A i, j \in DOMAIN Sent(d) :
        (i < j /\ Sent(d)[i].index = Sent(d)[j].index)
            => Sent(d)[i].begin < Sent(d)[j].begin

\* C23 (request ordering): within one call of attemptPieceDownload the
\* requests of a session are for one piece, and each begins where the one
\* before it ended; begin offsets repeat only from one call to a later one
\* (the piece was reset after a digest mismatch and taken again).
C23_RequestOrdering ==
    \A d \in Peers : \A i, j \in DOMAIN Sent(d) :
        (i < j /\ Sent(d)[i].call = Sent(d)[j].call)
            => /\ Sent(d)[i].index = Sent(d)[j].index
               /\ Sent(d)[i].begin < Sent(d)[j].begin
               /\ j = i + 1 =>
                     Sent(d)[j].begin = Sent(d)[i].begin + Sent(d)[i].length

\* a session has requested both blocks of a piece in one call and, after a
\* digest mismatch, both blocks again in a later call
C23_Witness ==
    \E d \in Peers : \E i, j \in DOMAIN Sent(d) :
        /\ j + 1 \in DOMAIN Sent(d)
        /\ i < j
        /\ Sent(d)[i].index = Sent(d)[j].index
        /\ Sent(d)[i].call < Sent(d)[j].call
        /\ Sent(d)[i].begin > 0
        /\ Sent(d)[j].begin = 0
        /\ Sent(d)[j + 1].call = Sent(d)[j].call

\* C24 (have without bitfield): a session without bitfield that reads
\* have(i) has afterwards a bitfield of ceil(total_pieces / 8) bytes that
\* shows piece i and no other piece.
C24_Orig ==
    (Returned("read") /\ codecIn.msg.ID = 4 /\ codecIn.c.bitfield = NoBitfield)
        => /\ codecOut.bitfield # NoBitfield
           /\ Len(codecOut.bitfield) = CeilDiv(codecIn.total, 8)
           /\ \A j \in 0 .. codecIn.total - 1 :
                 HasPiece(codecOut.bitfield, j) = (j = Uint32(codecIn.msg.Payload))

\* the dial task of peer d has sent its session on the dialer's stream
Delivered(d) == sess[d].pc \notin {"dial", "connected", "reported"}

\* C25 (usable bitfield on delivery): every session the dialer has delivered
\* has a bitfield; a peer that unchokes without having sent a bitfield (or a
\* have) is not delivered.
C25_Orig == \A d \in Peers : Delivered(d) => sess[d].bitfield # NoBitfield

\* session d reads a piece message in this step: the message is
\* sess'[d].log.block
PieceRead(d) ==
    \/ sess'[d].reqBacklog = sess[d].reqBacklog - 1
    \/ sess'[d].log.block # sess[d].log.block

\* C26 (block validation): a piece message for another index, or with
\* begin >= size, or with begin + len(data) > size makes attemptPieceDownload
\* return an error (the driver closes the session) and leaves every piece's
\* buffer and counters as they were; any other piece message is copied to
\* buffer[begin : begin + len(data)] and adds len(data) to downloaded.
C26_BlockValidation ==
    [][\A d \in Peers :
          PieceRead(d) =>
             LET p == sess[d].piece
                 m == sess'[d].log.block
             IN  IF m.index # p \/ m.begin >= size(p)
                               \/ m.begin + m.length > size(p)
                 THEN /\ pieces' = pieces
                      /\ ~sess'[d].connOpen
                      /\ sess'[d].pc = "done" \/ panicked' = "piecesChan"
                 ELSE /\ pieces'[p].downloaded = pieces[p].downloaded + m.length
                      /\ pieces'[p].requested = pieces[p].requested
                      /\ \E tag \in {"good", "bad"} :
                            \A b \in DOMAIN pieces[p].buf :
                               pieces'[p].buf[b] =
                                  IF /\ m.begin <= b * blockSize
                                     /\ b * blockSize < m.begin + m.length
                                  THEN tag ELSE pieces[p].buf[b]
                      /\ \A q \in PieceIdx \ {p} : pieces'[q] = pieces[q]
                      /\ sess'[d].pc = "download"
                      /\ sess'[d].connOpen]_vars

\* a session was closed on a piece message that ends after the end of the
\* piece, and the block of the piece received before it is still counted
\* and in the buffer
C26_Witness ==
    \E d \in Peers :
        LET m == sess[d].log.block
        IN  /\ m.index \in PieceIdx
            /\ m.begin + m.length > size(m.index)
            /\ ~sess[d].connOpen
            /\ sess[d].pc = "done"
            /\ pieces[m.index].downloaded = blockSize
            /\ pieces[m.index].buf[0] = "good"

\* C27 (piece accounting bounds): 0 <= downloaded <= requested <= size for
\* every piece, whatever piece messages the peers send.
C27_Orig ==
    \A p \in PieceIdx :
        /\ 0 <= pieces[p].downloaded
        /\ pieces[p].downloaded <= pieces[p].requested
        /\ pieces[p].requested <= size(p)

\* C28 (in_flight counts outstanding requests): the ReqBacklog of a session
\* is never negative, is at most 5, and is the number of requests sent on
\* the connection that no piece message has answered yet, also when the peer
\* sends piece messages that answer no request.
C28_Orig ==
    \A d \in Peers :
        /\ sess[d].reqBacklog >= 0
        /\ sess[d].reqBacklog <= 5
        /\ sess[d].reqBacklog = Cardinality(outstanding[d])

\* C29 (keep-alive failure): the step of an idle driver whose SendKeepAlive
\* fails closes the connection of its session and ends the driver, which
\* holds no piece; the queue and the pieces stay as they are.
C29_Orig ==
    [][\A d \in Peers :
          DriverKeepAliveFail(d)
             => /\ ~sess'[d].connOpen
                /\ sess'[d].pc = "done"
                /\ sess'[d].piece = NoPiece
                /\ UNCHANGED << piecesChan, pieces >>]_vars

\* C30 (dialer stream closure): the dialer's stream is closed once, and only
\* when every dial task has reported or workCtx is cancelled; no dial task
\* sends a session on the closed stream; no peer is dialed twice.
C30_Orig ==
    [][/\ peersChanClosed => peersChanClosed'
       /\ (~peersChanClosed /\ peersChanClosed')
             => (connsAttempts = totalPeers \/ workCtxDone)
       /\ \A d \in Peers :
             /\ DialDeliver(d) => ~peersChanClosed
             /\ sess[d].pc # "dial" => sess'[d].pc # "dial"]_vars

\* ------------------------------------------------------ claims C31 .. C34

\* C31 (client peer ID initialized once): whatever the interleaving of the
\* dial tasks that call getClientPeerID, the ID is generated at most once,
\* and all calls that have returned have returned the same 20 bytes, which
\* begin with -TM0001-.
C31_Orig ==
    /\ Cardinality({d \in Peers : idCall[d].generated > 0}) <= 1
    /\ \A d, e \in Peers :
          (idCall[d].pc = "done" /\ idCall[e].pc = "done")
              => /\ idCall[d].ret = idCall[e].ret
                 /\ Len(idCall[d].ret) = 20
                 /\ SubSeq(idCall[d].ret, 1, 8) = PeerIDPrefix

\* the call returned an error to its caller (it did not panic)
IsError(out) == "err" \in DOMAIN out /\ out.err # "nil"

\* C32 (truncated typed payload): a piece message with a payload of fewer
\* than 8 bytes and a have message with a payload of fewer than 4 bytes give
\* an error, never a crash of the process.
C32_Orig ==
    /\ ( /\ Returned("PieceBlockFromMessage")
         /\ codecIn.msg.ID = 7
         /\ Len(codecIn.msg.Payload) < 8 ) => IsError(codecOut)
    /\ ( /\ Returned("read")
         /\ codecIn.msg.ID = 4
         /\ Len(codecIn.msg.Payload) < 4 ) => IsError(codecOut)

\* C33 (bitfield length): a bitfield that a session holds after a read has
\* at least ceil(total_pieces / 8) bytes, whatever bitfield payload the peer
\* sent.
C33_Orig ==
    ( /\ Returned("read")
      /\ "bitfield" \in DOMAIN codecOut
      /\ codecOut.bitfield # NoBitfield )
        => Len(codecOut.bitfield) >= CeilDiv(codecIn.total, 8)

\* C34 (puts and done-sends never block): the work queue and the done-pieces
\* stream never hold more pieces than their capacity, total_pieces, so no
\* send of a driver on either channel waits for room.
C34_ChannelsNeverFull ==
    /\ Len(piecesChan) <= TotalPieces(torr)
    /\ Len(donePieces) <= TotalPieces(torr)

\* the done-pieces stream of a torrent of several pieces is filled to its
\* capacity, out of order, before the writer has taken anything from it
C34_Witness ==
    /\ TotalPieces(torr) >= 2
    /\ Len(donePieces) = TotalPieces(torr)
    /\ donePieces # genPiecesProgresses(torr)

====
